---- MODULE Spec2Model ----
(***************************************************************************)
(* A model of javascript-object-validator                                  *)
(* (src/src/javascriptObjectValidator.js): validate, doesObjectHaveAny and *)
(* doesObjectHaveProperty, over JavaScript values represented as tagged    *)
(* records and strings represented as sequences of one-character strings.  *)
(***************************************************************************)
EXTENDS Integers, Sequences, FiniteSets, TLC

VARIABLES
    object,                     \* the value passed as `object`
    propertyDescriptors,        \* the caller's descriptor list (validate mutates it)
    lazy,                       \* the value passed as `lazy`
    propertyString,             \* the path passed to doesObjectHaveProperty
    invalidValues,              \* the invalidValues passed to doesObjectHaveProperty
    requiredPropertyDescriptor, \* the descriptor passed to doesObjectHaveAny
    given,                      \* the descriptor list as it was before the first call
    calls,                      \* how many calls have completed (returned or thrown)
    outcome,                    \* what the last call did
    first                       \* what the first call of validate did

vars == <<object, propertyDescriptors, lazy, propertyString, invalidValues,
          requiredPropertyDescriptor, given, calls, outcome, first>>

-----------------------------------------------------------------------------
(* Bounds of the model.                                                    *)

\* Nesting depth of the objects validated.
MaxDepth == 2
\* Length, in characters, of the paths resolved character by character.
MaxPathLen == 3
\* Length of a descriptor's required list.
MaxReq == 3
\* Length of the descriptor list passed to validate.
MaxDesc == 2
\* Number of calls of validate a caller makes on one descriptor list.
MaxCalls == 2

-----------------------------------------------------------------------------
(* JavaScript values.                                                      *)

Undefined == [t |-> "undefined"]
Null == [t |-> "null"]
NaN == [t |-> "NaN"]
Bool(b) == [t |-> "boolean", b |-> b]
Num(n) == [t |-> "number", n |-> n]
Str(s) == [t |-> "string", s |-> s]
Arr(items) == [t |-> "array", items |-> items]
Obj(props) == [t |-> "object", props |-> props]

\* ToBoolean, as applied by `if (x)`, `!x` and Array.prototype.some.
Truthy(v) ==
    v \notin {Undefined, Null, NaN, Bool(FALSE), Num(0), Str(<<>>)}

\* a === b. Objects and arrays are equal only to themselves; the values
\* compared here are a resolved value and a literal listed in invalidValues,
\* which are never the same reference.
StrictEquals(a, b) ==
    a.t \notin {"NaN", "object", "array"} /\ a = b

\* The comparison of Array.prototype.includes: ===, but NaN matches NaN.
SameValueZero(a, b) ==
    StrictEquals(a, b) \/ (a.t = "NaN" /\ b.t = "NaN")

\* Array.prototype.indexOf(v) !== -1: membership by ===.
IncludesStrict(arr, v) ==
    \E i \in 1..Len(arr.items) : StrictEquals(arr.items[i], v)

\* arr.includes(v)
Includes(arr, v) ==
    \E i \in 1..Len(arr.items) : SameValueZero(arr.items[i], v)

\* v[k] for a v that is neither undefined nor null. A primitive has none of
\* the keys of the model as a property (no key here is 'length' or an index).
Get(v, k) ==
    IF v.t = "object" /\ k \in DOMAIN v.props THEN v.props[k] ELSE Undefined

\* Whether v[k] raises a TypeError.
GetThrows(v) == v.t \in {"undefined", "null"}

-----------------------------------------------------------------------------
(* Strings.                                                                *)

RECURSIVE SplitFrom(_, _, _, _)
SplitFrom(s, i, cur, acc) ==
    IF i > Len(s) THEN Append(acc, cur)
    ELSE IF s[i] = "." THEN SplitFrom(s, i + 1, <<>>, Append(acc, cur))
    ELSE SplitFrom(s, i + 1, Append(cur, s[i]), acc)

\* s.split('.')
Split(s) == SplitFrom(s, 1, <<>>, <<>>)

RECURSIVE TrimStart(_)
TrimStart(s) ==
    IF s # <<>> /\ Head(s) = " " THEN TrimStart(Tail(s)) ELSE s

RECURSIVE TrimEnd(_)
TrimEnd(s) ==
    IF s # <<>> /\ s[Len(s)] = " " THEN TrimEnd(SubSeq(s, 1, Len(s) - 1)) ELSE s

\* s.trim()
Trim(s) == TrimEnd(TrimStart(s))

\* String(v), as `errorMessage += v` applies it.
StringOf(v) ==
    IF v.t = "string" THEN v.s
    ELSE IF v.t = "null" THEN <<"n", "u", "l", "l">>
    ELSE <<"u", "n", "d", "e", "f", "i", "n", "e", "d">>

-----------------------------------------------------------------------------
(* doesObjectHaveProperty.                                                 *)

\* The every callback with `curVal !== undefined` as its only test: a null
\* counts as present, and indexing into it on the next segment raises.
RECURSIVE EveryNullPresent(_, _, _)
EveryNullPresent(curVal, splitProperties, i) ==
    IF i > Len(splitProperties)
    THEN [threw |-> FALSE, containsProperty |-> TRUE, curVal |-> curVal,
          steps |-> i - 1]
    ELSE IF GetThrows(curVal)
    THEN [threw |-> TRUE, containsProperty |-> FALSE, curVal |-> curVal,
          steps |-> i]
    ELSE LET next == Get(curVal, splitProperties[i])
         IN  IF next # Undefined
             THEN EveryNullPresent(next, splitProperties, i + 1)
             ELSE [threw |-> FALSE, containsProperty |-> FALSE,
                   curVal |-> next, steps |-> i]

\* The callback of splitProperties.every, from segment i on: curVal is
\* replaced by curVal[property], and the loop goes on while that value is
\* neither undefined nor null. `steps` counts the index operations
\* curVal[property] attempted; `threw` says the last of them raised.
RECURSIVE Every(_, _, _)
Every(curVal, splitProperties, i) ==
    IF i > Len(splitProperties)
    THEN [threw |-> FALSE, containsProperty |-> TRUE, curVal |-> curVal,
          steps |-> i - 1]
    ELSE IF GetThrows(curVal)
    THEN [threw |-> TRUE, containsProperty |-> FALSE, curVal |-> curVal,
          steps |-> i]
    ELSE LET next == Get(curVal, splitProperties[i])
         IN  IF next # Undefined /\ next # Null
             THEN Every(next, splitProperties, i + 1)
             ELSE [threw |-> FALSE, containsProperty |-> FALSE,
                   curVal |-> next, steps |-> i]

\* doesObjectHaveProperty(curVal, propertyString, invalidValues). `ret` is
\* the value returned, `found` and `value` are containsProperty and curVal
\* as the every loop left them, `threw` says the call raised a TypeError
\* (propertyString has no split method, or the root cannot be indexed).
doesObjectHaveProperty(curVal, propertyStr, invalidVals) ==
    IF propertyStr.t # "string" THEN
        [threw |-> TRUE, ret |-> FALSE, found |-> FALSE, value |-> Undefined,
         steps |-> 0]
    ELSE
        LET w == Every(curVal, Split(propertyStr.s), 1)
        IN  [threw |-> w.threw,
             ret |-> ~w.threw /\ w.containsProperty
                     /\ (~Truthy(invalidVals)
                         \/ ~Includes(invalidVals, w.curVal)),
             found |-> w.containsProperty,
             value |-> w.curVal,
             steps |-> w.steps]

-----------------------------------------------------------------------------
(* doesObjectHaveAny.                                                      *)

\* required.forEach in place of required.some: every candidate is checked
\* and the result is that of the last one.
RECURSIVE ForEachCandidate(_, _, _, _)
ForEachCandidate(obj, descriptor, i, result) ==
    IF i > Len(descriptor.required.items)
    THEN [threw |-> FALSE, result |-> result, checked |-> i - 1]
    ELSE LET r == doesObjectHaveProperty(obj, descriptor.required.items[i],
                                         descriptor.invalidValues)
         IN  IF r.threw
             THEN [threw |-> TRUE, result |-> result, checked |-> i]
             ELSE ForEachCandidate(obj, descriptor, i + 1, Bool(r.ret))

\* The callback of required.some, from candidate i on: result takes what
\* doesObjectHaveProperty returns, and the loop stops once that is true.
\* `checked` counts the candidates the callback ran on.
RECURSIVE SomeCandidate(_, _, _, _)
SomeCandidate(obj, descriptor, i, result) ==
    IF i > Len(descriptor.required.items)
    THEN [threw |-> FALSE, result |-> result, checked |-> i - 1]
    ELSE LET r == doesObjectHaveProperty(obj, descriptor.required.items[i],
                                         descriptor.invalidValues)
         IN  IF r.threw
             THEN [threw |-> TRUE, result |-> result, checked |-> i]
             ELSE IF r.ret
             THEN [threw |-> FALSE, result |-> Bool(TRUE), checked |-> i]
             ELSE SomeCandidate(obj, descriptor, i + 1, Bool(FALSE))

\* doesObjectHaveAny with forEach.
doesObjectHaveAnyForEach(obj, descriptor) ==
    ForEachCandidate(obj, descriptor, 1, Null)

\* doesObjectHaveAny(object, requiredPropertyDescriptor): result starts as
\* null and is returned as the loop left it.
doesObjectHaveAny(obj, descriptor) ==
    SomeCandidate(obj, descriptor, 1, Null)

-----------------------------------------------------------------------------
(* validate (module.exports).                                              *)

\* 'Object must contain a valid value for '
Prefix ==
    <<"O", "b", "j", "e", "c", "t", " ", "m", "u", "s", "t", " ",
      "c", "o", "n", "t", "a", "i", "n", " ", "a", " ",
      "v", "a", "l", "i", "d", " ", "v", "a", "l", "u", "e", " ",
      "f", "o", "r", " ">>

\* The key of the generated payload, 'message'.
MessageKey == <<"m", "e", "s", "s", "a", "g", "e">>

\* The callback of required.forEach that builds the default message, from
\* element idx on (idx counts from 1; the code's idx is idx - 1).
RECURSIVE ForEachRequired(_, _, _)
ForEachRequired(arr, idx, errorMessage) ==
    IF idx > Len(arr) THEN errorMessage
    ELSE LET m1 == IF Len(arr) > 1 /\ idx = Len(arr)
                   THEN errorMessage \o <<"o", "r", " ">>
                   ELSE errorMessage
             m2 == m1 \o StringOf(arr[idx])
             m3 == IF Len(arr) > 2 /\ idx # Len(arr) THEN m2 \o <<",", " ">>
                   ELSE IF Len(arr) >= 2 THEN m2 \o <<" ">>
                   ELSE m2
         IN  ForEachRequired(arr, idx + 1, m3)

\* The default payload with the separator ', ' used from two paths on.
DefaultErrorCommaFromTwo(required) ==
    LET arr == required.items
        Sep(idx) == IF idx < Len(arr) THEN <<",", " ">> ELSE <<>>
        Or(idx) == IF Len(arr) > 1 /\ idx = Len(arr) THEN <<"o", "r", " ">>
                   ELSE <<>>
        RECURSIVE Join(_, _)
        Join(idx, acc) ==
            IF idx > Len(arr) THEN acc
            ELSE Join(idx + 1, acc \o Or(idx) \o StringOf(arr[idx]) \o Sep(idx))
    IN  Obj(MessageKey :> Str(Trim(Join(1, Prefix))))

\* The default payload, {message: errorMessage.trim()}.
DefaultError(required) ==
    Obj(MessageKey :> Str(Trim(ForEachRequired(required.items, 1, Prefix))))

\* The payload pushed for a failing descriptor.
ErrorFor(propertyDescriptor) ==
    IF Truthy(propertyDescriptor.error)
    THEN propertyDescriptor.error
    ELSE DefaultError(propertyDescriptor.required)

\* The descriptor with required wrapped whether or not it is an array.
WrapAlways(propertyDescriptor) ==
    [propertyDescriptor EXCEPT !.required = Arr(<<@>>)]

\* The descriptor after `if (!Array.isArray(required)) required = [required]`.
WrapRequired(propertyDescriptor) ==
    IF propertyDescriptor.required.t # "array"
    THEN [propertyDescriptor EXCEPT !.required = Arr(<<@>>)]
    ELSE propertyDescriptor

\* A some callback that never returns true.
NeverStops(lz) == FALSE

\* `if (lazy) return true`: whether the some loop stops after a failure.
StopsAfterFailure(lz) == Truthy(lz)

\* The callback of propertyDescriptors.some, from descriptor i on. `evaluated`
\* counts the descriptors the callback ran on; `descriptors` is the list with
\* the callback's assignments to required applied.
RECURSIVE SomeDescriptor(_, _, _, _, _, _)
SomeDescriptor(obj, descriptors, lz, i, valid, errors) ==
    IF i > Len(descriptors)
    THEN [threw |-> FALSE, valid |-> valid, errors |-> errors,
          evaluated |-> i - 1, descriptors |-> descriptors]
    ELSE LET pd == WrapRequired(descriptors[i])
             ds == [descriptors EXCEPT ![i] = pd]
             any == doesObjectHaveAny(obj, pd)
         IN  IF any.threw
             THEN [threw |-> TRUE, valid |-> valid, errors |-> errors,
                   evaluated |-> i, descriptors |-> ds]
             ELSE IF ~Truthy(any.result)
             THEN IF StopsAfterFailure(lz)
                  THEN [threw |-> FALSE, valid |-> FALSE,
                        errors |-> Append(errors, ErrorFor(pd)),
                        evaluated |-> i, descriptors |-> ds]
                  ELSE SomeDescriptor(obj, ds, lz, i + 1, FALSE,
                                      Append(errors, ErrorFor(pd)))
             ELSE SomeDescriptor(obj, ds, lz, i + 1, valid, errors)

\* validate(object, propertyDescriptors, lazy): result starts as
\* {valid: true, errors: []}.
validate(obj, descriptors, lz) ==
    SomeDescriptor(obj, descriptors, lz, 1, TRUE, <<>>)

\* What a caller sees of a call of validate: the result returned, or that it
\* raised. `evaluated` is kept beside it.
Seen(r) ==
    IF r.threw THEN [threw |-> TRUE, evaluated |-> r.evaluated]
    ELSE [threw |-> FALSE, valid |-> r.valid, errors |-> r.errors,
          evaluated |-> r.evaluated]

-----------------------------------------------------------------------------
(* The inputs the calls are made on.                                       *)

\* The characters paths are made of: two letters, the delimiter and a space.
Alphabet == {"a", "b", ".", " "}

\* The non-empty strings of at most n characters.
StringsUpTo(n) == UNION {[1..k -> Alphabet] : k \in 1..n}

\* The sequences over S of length lo to hi.
SeqsOf(S, lo, hi) == UNION {[1..k -> S] : k \in lo..hi}

\* Values that are not objects: absent, null, and present primitives, the
\* falsy ones among them.
Leaves == {Undefined, Null, Bool(FALSE), NaN, Str(<<>>), Str(<<"b">>)}

\* The values nested at most d deep: a leaf, {}, {a: x} or {a: x, b: 'b'}
\* with x nested at most d - 1 deep.
RECURSIVE Values(_)
Values(d) ==
    IF d = 0 THEN Leaves
    ELSE Leaves \cup {Obj(<<>>)}
         \cup {Obj(<<"a">> :> x) : x \in Values(d - 1)}
         \cup {Obj((<<"a">> :> x) @@ (<<"b">> :> Str(<<"b">>))) :
                 x \in Values(d - 1)}

\* The objects validate is called on: roots that cannot be indexed, a
\* primitive root, and objects on which each path of RequiredPool below is
\* missing, null, present but falsy or NaN, or present.
ObjectPool ==
    {Undefined, Null, Str(<<"b">>), Obj(<<>>),
     Obj(<<"a">> :> Null),
     Obj(<<"a">> :> Str(<<>>)),
     Obj(<<"a">> :> Obj(<<>>)),
     Obj((<<"a">> :> Bool(FALSE)) @@ (<<"b">> :> Str(<<"b">>))),
     Obj(<<"a">> :> Obj(<<"a">> :> NaN)),
     Obj((<<"a">> :> Obj(<<"a">> :> Str(<<"b">>))) @@ (<<"b">> :> Str(<<"b">>)))}

\* The invalidValues a descriptor may carry: none, or a list of primitives.
InvalidValueLists ==
    {Undefined, Arr(<<>>), Arr(<<Str(<<>>), NaN>>)}
    \cup {Arr(<<v>>) : v \in {NaN, Str(<<>>), Str(<<"b">>), Bool(FALSE)}}

\* Paths of the objects above: 'a', 'b', 'a.a', 'a.b'.
PathPool ==
    {Str(<<"a">>), Str(<<"b">>), Str(<<"a", ".", "a">>), Str(<<"a", ".", "b">>)}

\* Paths for the default message: 'a', 'b', 'a.b', one with a space inside,
\* 'a b', and one that ends in a space, 'a '.
MessagePaths ==
    {Str(<<"a">>), Str(<<"b">>), Str(<<"a", ".", "b">>),
     Str(<<"a", " ", "b">>), Str(<<"a", " ">>)}

\* The error a descriptor may carry: none, a falsy one (''), an object.
ErrorPool ==
    {Undefined, Str(<<>>), Obj(MessageKey :> Str(<<"E">>))}

Descriptor(required, invalid, error) ==
    [required |-> required, invalidValues |-> invalid, error |-> error]

\* The required fields of the descriptors validated: absent, a path, a list.
RequiredPool ==
    {Undefined, Str(<<"a">>), Str(<<"a", ".", "a">>),
     Arr(<<Str(<<"b">>), Str(<<"a", ".", "a">>)>>)}

\* The descriptors validated.
DescriptorPool ==
    {Descriptor(r, Undefined, e) : r \in RequiredPool, e \in ErrorPool}
    \cup {Descriptor(Str(<<"a", ".", "a">>), Arr(<<Str(<<>>), NaN>>), Undefined)}

\* The values of the lazy argument: omitted, false, true.
LazyValues == {Undefined, Bool(FALSE), Bool(TRUE)}

\* The value of a variable a specification does not use.
Unused == Undefined

-----------------------------------------------------------------------------
(* The calls.                                                              *)

\* A caller holds an object and a descriptor list and has not called yet.
Init ==
    /\ object \in ObjectPool
    /\ propertyDescriptors \in SeqsOf(DescriptorPool, 0, MaxDesc)
    /\ lazy \in LazyValues
    /\ given = propertyDescriptors
    /\ propertyString = Unused
    /\ invalidValues = Unused
    /\ requiredPropertyDescriptor = Unused
    /\ calls = 0
    /\ outcome = Unused
    /\ first = Unused

\* A caller holds an object and one descriptor without invalidValues, whose
\* required is a path or a list of paths.
InitMessage ==
    /\ object \in ObjectPool
    /\ \E r \in MessagePaths
              \cup {Arr(l) : l \in SeqsOf(MessagePaths, 1, MaxReq)},
          e \in {Undefined, Str(<<>>), Str(<<"E">>)} :
          propertyDescriptors = <<Descriptor(r, Undefined, e)>>
    /\ lazy \in {Undefined, Bool(TRUE)}
    /\ given = propertyDescriptors
    /\ propertyString = Unused
    /\ invalidValues = Unused
    /\ requiredPropertyDescriptor = Unused
    /\ calls = 0
    /\ outcome = Unused
    /\ first = Unused

\* doesObjectHaveAny is about to be called on a descriptor whose required is
\* a list of paths.
InitAny ==
    /\ object \in Values(MaxDepth)
    /\ \E l \in SeqsOf(PathPool, 0, MaxReq),
          iv \in {Undefined, Arr(<<Str(<<>>), NaN>>), Arr(<<Str(<<"b">>)>>)} :
          requiredPropertyDescriptor = Descriptor(Arr(l), iv, Undefined)
    /\ propertyDescriptors = <<>>
    /\ lazy = Unused
    /\ given = <<>>
    /\ propertyString = Unused
    /\ invalidValues = Unused
    /\ calls = 0
    /\ outcome = Unused
    /\ first = Unused

\* doesObjectHaveProperty is about to be called on a path.
InitProperty ==
    /\ object \in Values(MaxDepth)
    /\ propertyString \in {Str(p) : p \in StringsUpTo(MaxPathLen)}
    /\ invalidValues \in InvalidValueLists
    /\ requiredPropertyDescriptor = Unused
    /\ propertyDescriptors = <<>>
    /\ lazy = Unused
    /\ given = <<>>
    /\ calls = 0
    /\ outcome = Unused
    /\ first = Unused

\* A call of validate(object, propertyDescriptors, lazy); a caller that reuses
\* its descriptor list calls again on the list as the call before left it.
Validate ==
    /\ calls < MaxCalls
    /\ LET r == validate(object, propertyDescriptors, lazy)
       IN  /\ propertyDescriptors' = r.descriptors
           /\ outcome' = Seen(r)
           /\ first' = IF calls = 0 THEN Seen(r) ELSE first
    /\ calls' = calls + 1
    /\ UNCHANGED <<object, lazy, propertyString, invalidValues,
                   requiredPropertyDescriptor, given>>

\* A call of doesObjectHaveAny(object, requiredPropertyDescriptor).
CallAny ==
    /\ calls = 0
    /\ outcome' = doesObjectHaveAny(object, requiredPropertyDescriptor)
    /\ calls' = 1
    /\ UNCHANGED <<object, propertyDescriptors, lazy, propertyString,
                   invalidValues, requiredPropertyDescriptor, given, first>>

\* A call of doesObjectHaveProperty(object, propertyString, invalidValues).
CallProperty ==
    /\ calls = 0
    /\ outcome' = doesObjectHaveProperty(object, propertyString, invalidValues)
    /\ calls' = 1
    /\ UNCHANGED <<object, propertyDescriptors, lazy, propertyString,
                   invalidValues, requiredPropertyDescriptor, given, first>>

Next == Validate

Spec == Init /\ [][Next]_vars

NextMessage == Validate

SpecMessage == InitMessage /\ [][NextMessage]_vars

NextAny == CallAny

SpecAny == InitAny /\ [][NextAny]_vars

NextProperty == CallProperty

SpecProperty == InitProperty /\ [][NextProperty]_vars

-----------------------------------------------------------------------------
(* The vocabulary of the properties: what a path resolves to and when a    *)
(* candidate and a descriptor fail, stated without the loops of the code.  *)

Missing(v) == v = Undefined \/ v = Null

\* The value i segments down from root; nothing lies below a missing value.
RECURSIVE ValueAt(_, _, _)
ValueAt(root, segments, i) ==
    IF i = 0 THEN root
    ELSE LET above == ValueAt(root, segments, i - 1)
         IN  IF Missing(above) THEN Undefined ELSE Get(above, segments[i])

\* Every value on the path, the last one included, is present.
AllPresent(root, path) ==
    \A i \in 1..Len(Split(path.s)) : ~Missing(ValueAt(root, Split(path.s), i))

\* The number of segments walked until the first missing value.
WalkLength(root, path) ==
    LET segments == Split(path.s)
        missing == {i \in 1..Len(segments) : Missing(ValueAt(root, segments, i))}
    IN  IF missing = {} THEN Len(segments)
        ELSE CHOOSE i \in missing : \A j \in missing : i <= j

\* The value the whole path names.
Resolved(root, path) == ValueAt(root, Split(path.s), Len(Split(path.s)))

\* v is one of the values listed; a listed NaN lists NaN.
Listed(v, invalid) ==
    invalid # Undefined /\ \E i \in 1..Len(invalid.items) : invalid.items[i] = v

\* A required element that is no string names no path and is no candidate.
ValidCandidate(root, path, invalid) ==
    /\ path.t = "string"
    /\ AllPresent(root, path)
    /\ ~Listed(Resolved(root, path), invalid)

\* The paths of a required field, a single path being a list of one.
PathsOf(required) ==
    IF required.t = "array" THEN required.items ELSE <<required>>

WellFormed(descriptor) ==
    /\ descriptor.required # Undefined
    /\ PathsOf(descriptor.required) # <<>>
    /\ \A i \in 1..Len(PathsOf(descriptor.required)) :
          PathsOf(descriptor.required)[i].t = "string"

Fails(root, descriptor) ==
    \A i \in 1..Len(PathsOf(descriptor.required)) :
        ~ValidCandidate(root, PathsOf(descriptor.required)[i],
                        descriptor.invalidValues)

-----------------------------------------------------------------------------
(* Properties of doesObjectHaveProperty, under SpecProperty.               *)

\* C5: resolving a path reports found iff every value on the path, walking
\* the segments in order from the root, is neither undefined nor null, so
\* that false and '' count as found; and the walk attempts exactly the index
\* operations up to the first undefined or null value.
PathFoundIffAllPresent ==
    calls = 1 =>
        /\ (~outcome.threw /\ outcome.found) <=> AllPresent(object, propertyString)
        /\ outcome.steps = WalkLength(object, propertyString)

\* C5 witness: a two-segment path was resolved to a present but falsy value
\* (false or ''), which counts as found.
PathFoundFalsyWitness ==
    /\ calls = 1
    /\ Len(Split(propertyString.s)) = 2
    /\ ~outcome.threw /\ outcome.found
    /\ outcome.value \in {Bool(FALSE), Str(<<>>)}

\* C4: a candidate path is valid iff it resolves to a found value and either
\* no invalidValues is given or the resolved value is not listed in it, a
\* resolved NaN being listed by a list that contains NaN.
CandidateValidIffFoundAndNotListed ==
    calls = 1 =>
        (outcome.ret <=> (/\ AllPresent(object, propertyString)
                          /\ ~Listed(Resolved(object, propertyString),
                                     invalidValues)))

\* C4 witness: a path resolved to NaN, invalidValues lists NaN, and the
\* candidate was rejected.
CandidateNaNListedWitness ==
    /\ calls = 1
    /\ ~outcome.threw /\ outcome.found
    /\ outcome.value = NaN
    /\ Listed(NaN, invalidValues)
    /\ ~outcome.ret

-----------------------------------------------------------------------------
(* Properties of doesObjectHaveAny, under SpecAny.                         *)

\* C3: a descriptor whose required is a list of paths is valid iff at least
\* one path of the list is a valid candidate, wherever in the list it is, and
\* is reported invalid only when every path fails.
DescriptorValidIffAnyCandidate ==
    calls = 1 =>
        LET d == requiredPropertyDescriptor
            paths == d.required.items
            anyValid == \E i \in 1..Len(paths) :
                            ValidCandidate(object, paths[i], d.invalidValues)
        IN  /\ (~outcome.threw /\ outcome.result = Bool(TRUE)) <=> anyValid
            /\ (~outcome.threw /\ ~Truthy(outcome.result)) => Fails(object, d)

\* C3 witness: a list of several paths whose first path fails and whose last
\* path is valid was found valid.
DescriptorLastCandidateWitness ==
    /\ calls = 1
    /\ LET d == requiredPropertyDescriptor
           paths == d.required.items
       IN  /\ Len(paths) >= 2
           /\ ~ValidCandidate(object, paths[1], d.invalidValues)
           /\ ValidCandidate(object, paths[Len(paths)], d.invalidValues)
           /\ outcome.result = Bool(TRUE)

-----------------------------------------------------------------------------
(* Properties of validate, under Spec.                                     *)

\* The indexes, from i on, of the descriptors that fail on root, in order.
RECURSIVE FailingFrom(_, _, _)
FailingFrom(root, descriptors, i) ==
    IF i > Len(descriptors) THEN <<>>
    ELSE (IF Fails(root, descriptors[i]) THEN <<i>> ELSE <<>>)
         \o FailingFrom(root, descriptors, i + 1)

AllWellFormed(descriptors) ==
    \A i \in 1..Len(descriptors) : WellFormed(descriptors[i])

\* The result is valid iff nothing failed and holds, in order, the payload of
\* each failing descriptor and nothing else.
CollectsEveryFailure(result, root, descriptors) ==
    LET failing == FailingFrom(root, descriptors, 1)
    IN  /\ ~result.threw
        /\ result.valid <=> (failing = <<>>)
        /\ Len(result.errors) = Len(failing)
        /\ \A k \in 1..Len(failing) :
              result.errors[k] = ErrorFor(WrapRequired(descriptors[failing[k]]))

\* The lazy result holds at most the first error of the non-lazy run, and
\* nothing after the first failing descriptor was evaluated.
HoldsFirstFailure(result, root, descriptors) ==
    LET failing == FailingFrom(root, descriptors, 1)
        eager == validate(root, descriptors, Bool(FALSE))
    IN  /\ ~result.threw
        /\ Len(result.errors) <= 1
        /\ failing = <<>> => (result.errors = <<>> /\ result.valid)
        /\ failing # <<>> =>
              /\ ~eager.threw
              /\ result.errors = <<eager.errors[1]>>
              /\ ~result.valid
              /\ result.evaluated = failing[1]

\* C1: for every object and every well-formed descriptor list, validate with
\* lazy false or omitted returns a result that is valid iff no descriptor
\* failed and whose errors hold exactly one payload per failing descriptor,
\* in the order of the descriptors.
ValidateCollectsEveryFailure ==
    (calls >= 1 /\ ~Truthy(lazy) /\ AllWellFormed(given)) =>
        CollectsEveryFailure(first, object, given)

\* C1, on the roots validate can index (every root but undefined and null),
\* where the statement holds.
ValidateCollectsOnIndexableRoot ==
    (calls >= 1 /\ ~Truthy(lazy) /\ AllWellFormed(given) /\ ~GetThrows(object)) =>
        CollectsEveryFailure(first, object, given)

\* C2: validate with lazy true returns errors of length 0 or 1: empty and
\* valid when no descriptor fails, else the one-element list of errors[0] of
\* the non-lazy run on the same inputs, with valid false and no descriptor
\* after the first failing one evaluated.
ValidateLazyFirstFailure ==
    (calls >= 1 /\ lazy = Bool(TRUE) /\ AllWellFormed(given)) =>
        HoldsFirstFailure(first, object, given)

\* C2, on the roots validate can index, where the statement holds.
ValidateLazyOnIndexableRoot ==
    (calls >= 1 /\ lazy = Bool(TRUE) /\ AllWellFormed(given)
     /\ ~GetThrows(object)) =>
        HoldsFirstFailure(first, object, given)

\* C6: whenever a failing descriptor supplies an error field, whatever its
\* value, the payload appended for it is exactly that value; a generated
\* {message} payload is appended only when it supplies no error field.
CustomErrorVerbatim ==
    (calls >= 1 /\ ~first.threw) =>
        LET failing == FailingFrom(object, given, 1)
        IN  \A k \in 1..Len(first.errors) :
              /\ k <= Len(failing)
              /\ LET d == given[failing[k]]
                 IN  /\ d.error # Undefined => first.errors[k] = d.error
                     /\ first.errors[k] = DefaultError(WrapRequired(d).required)
                            => d.error = Undefined

\* C8: for every well-formed descriptor list validate never raises, whatever
\* value object is.
ValidateNeverRaises ==
    (calls >= 1 /\ AllWellFormed(given)) => ~first.threw

\* Some descriptor of the list has no required field.
HasMalformed(descriptors) ==
    \E i \in 1..Len(descriptors) : descriptors[i].required = Undefined

\* The index of the first descriptor without a required field.
FirstMalformed(descriptors) ==
    CHOOSE i \in 1..Len(descriptors) :
        /\ descriptors[i].required = Undefined
        /\ \A j \in 1..(i - 1) : descriptors[j].required # Undefined

\* validate reports descriptor j as failing: its evaluation returns, falsy.
ReportedFailing(root, descriptor) ==
    LET any == doesObjectHaveAny(root, WrapRequired(descriptor))
    IN  ~any.threw /\ ~Truthy(any.result)

\* C9 as stated: a descriptor list that holds a descriptor without a required
\* field makes validate raise, in lazy and in non-lazy mode, whatever the
\* descriptors before it give.
MalformedDescriptorRaises ==
    (calls >= 1 /\ HasMalformed(given)) => first.threw

\* C9, amended: such a list makes validate raise unless lazy is true and a
\* descriptor before the first malformed one is reported as failing; then
\* validate returns valid false with that one error and raises nothing.
MalformedDescriptorRaisesWhenReached ==
    (calls >= 1 /\ HasMalformed(given)) =>
        LET m == FirstMalformed(given)
            stopped == /\ Truthy(lazy)
                       /\ \E j \in 1..(m - 1) : ReportedFailing(object, given[j])
        IN  /\ first.threw <=> ~stopped
            /\ stopped => (~first.valid /\ Len(first.errors) = 1
                           /\ first.evaluated < m)

\* C9 witness: a lazy call returned one error for a list whose second
\* descriptor has no required field.
MalformedSkippedWitness ==
    /\ calls >= 1
    /\ Len(given) >= 2
    /\ given[1].required # Undefined
    /\ given[2].required = Undefined
    /\ lazy = Bool(TRUE)
    /\ ~first.threw
    /\ Len(first.errors) = 1

\* C10: a second call on the same object, the descriptor list as the first
\* call left it and the same lazy flag gives what the first call gave; and a
\* call changes nothing in the descriptors but the required of each
\* descriptor it evaluated, a non-list required becoming the one-element
\* list of that path.
SecondCallSameResult ==
    /\ calls >= 2 =>
          /\ outcome.threw = first.threw
          /\ ~first.threw => (/\ outcome.valid = first.valid
                              /\ outcome.errors = first.errors)
    /\ calls >= 1 =>
          /\ Len(propertyDescriptors) = Len(given)
          /\ \A i \in 1..Len(given) :
                /\ propertyDescriptors[i].invalidValues = given[i].invalidValues
                /\ propertyDescriptors[i].error = given[i].error
                /\ propertyDescriptors[i].required =
                      IF i <= first.evaluated /\ given[i].required.t # "array"
                      THEN Arr(<<given[i].required>>)
                      ELSE given[i].required

\* C10 witness: two calls were made on a list that held a single-path
\* required, and the first returned an error.
SecondCallWitness ==
    /\ calls = 2
    /\ \E i \in 1..Len(given) : given[i].required.t = "string"
    /\ ~first.threw
    /\ first.errors # <<>>
    /\ ~outcome.threw

-----------------------------------------------------------------------------
(* Properties of the default message, under SpecMessage.                   *)

\* Each of the first k paths followed by ', '.
RECURSIVE CommaList(_, _)
CommaList(paths, k) ==
    IF k = 0 THEN <<>>
    ELSE CommaList(paths, k - 1) \o paths[k].s \o <<",", " ">>

\* 'X', 'X or Y', 'X, Y, or Z'.
Joined(paths) ==
    LET n == Len(paths)
    IN  IF n = 1 THEN paths[1].s
        ELSE IF n = 2 THEN paths[1].s \o <<" ", "o", "r", " ">> \o paths[2].s
        ELSE CommaList(paths, n - 1) \o <<"o", "r", " ">> \o paths[n].s

\* s without the spaces it ends in.
WithoutTrailingSpaces(s) ==
    LET k == CHOOSE k \in 0..Len(s) :
                 /\ k = 0 \/ s[k] # " "
                 /\ \A j \in (k + 1)..Len(s) : s[j] = " "
    IN  SubSeq(s, 1, k)

NoOuterSpace(s) == s = <<>> \/ (s[1] # " " /\ s[Len(s)] # " ")

\* A call returned an error for a descriptor that has no error field.
GeneratedPayload ==
    /\ calls >= 1
    /\ Len(given) = 1
    /\ given[1].error = Undefined
    /\ ~first.threw
    /\ first.errors # <<>>

\* C7 as stated: the generated payload is {message: 'Object must contain a
\* valid value for ' + J}, J being 'X', 'X or Y' or 'X, Y, or Z', and the
\* message has no leading or trailing whitespace.
GeneratedMessageIsPrefixJoined ==
    GeneratedPayload =>
        LET message == Prefix \o Joined(PathsOf(given[1].required))
        IN  /\ first.errors[1] = Obj(MessageKey :> Str(message))
            /\ NoOuterSpace(message)

\* C7, amended: the generated payload is {message: M}, M being 'Object must
\* contain a valid value for ' + J without the whitespace it ends in; M has
\* no leading or trailing whitespace, and a single path gives the message of
\* the one-element list.
GeneratedMessageIsTrimmedPrefixJoined ==
    GeneratedPayload =>
        LET message == WithoutTrailingSpaces(
                           Prefix \o Joined(PathsOf(given[1].required)))
        IN  /\ first.errors[1] = Obj(MessageKey :> Str(message))
            /\ NoOuterSpace(message)

\* C7 witness: a message was generated for a list of more than two paths.
GeneratedMessageWitness ==
    /\ GeneratedPayload
    /\ given[1].required.t = "array"
    /\ Len(given[1].required.items) >= 3

====
